---- MODULE Spec2Model ----
(***************************************************************************)
(* Model of the curseforge modpack downloader:                             *)
(*   src/minecraft_modpack_downloader.py  (main, execute_threadpool,       *)
(*                                         Downloader, Mod, Forge)         *)
(*   src/utils.py                         (is_valid_path,                  *)
(*                                         handle_get_request)             *)
(* Item 0 is the Forge installer, handled by the main thread; items        *)
(* 1..NMods are the manifest's mods, handled by the thread pool.           *)
(***************************************************************************)
EXTENDS Integers, Sequences, FiniteSets, TLC

\* ------------------------------------------------------------------ bounds
NMods == 3
PoolSize == 2
MaxRuns == 2
\* the longest per-version list of a lone widget lookup
MaxList == 2

\* --------------------------------------------------------------- constants
\* requests.codes.ok
StatusOk == 200
\* the attempt ceiling of the fetcher's retry loop
FetchCeiling == 3

Mods == 1..NMods
ForgeItem == 0
Items == {ForgeItem} \cup Mods

\* file names: the installer's, the mods', and the name of a mod's other release
ModNames == {"a.jar", "b.jar"}
OtherName == "old.jar"
ForgeName == "forge-installer.jar"
Paths == {ForgeName, OtherName} \cup ModNames

\* The file name the provider gives the file a manifest entry asks for: entries
\* 1 and 3 ask for files of the same name, entry 2 for another.
FileOf(i) == IF i = ForgeItem THEN ForgeName
             ELSE IF i % 2 = 1 THEN "a.jar" ELSE "b.jar"

\* file ids: the id a manifest entry asks for, and the id of another release
WantedId == 1
OtherId == 2
NameOfId(i, id) == IF id = WantedId THEN FileOf(i) ELSE OtherName

NoReport == << >>
Outcomes == {"Skipped", "Succeeded", "ResolutionFailed", "FetchFailed", "WriteFailed"}
NoUrl == [host |-> "none", id |-> 0, name |-> "none"]
NoMod == [file |-> "none", url |-> NoUrl]
NoExit == [code |-> -1, msg |-> "none"]
\* sys.exit's argument in parse_manifest, and what an uncaught exception prints
ParseDiagnostic == "An error occurred while parsing the manifest file"
Traceback == "Traceback (most recent call last)"

VARIABLES
  include_forge,  \* args["include_forge"]
  switch_api,     \* args["switch_api"]: TRUE = the widget API, FALSE = forgesvc
  manifest,       \* the manifest file's text: "ok" (JSON, with the keys read) or "badjson"
  run,            \* which invocation of main() this is
  pcMain,         \* where main() is
  exited,         \* the process's exit: its status (-1 while it runs) and what it
                  \* wrote to stderr on the way out
  pc,             \* pc[i]: where item i's pipeline is
  mod,            \* mod[i]: the (file, url) the item resolved to
  reports,        \* reports[i]: the outcomes printed for item i, in order
  raised,         \* raised[i]: an exception left item i's pipeline
  metaReq,        \* metaReq[i]: a metadata request was issued for item i
  fetchReq,       \* fetchReq[i]: a download request was issued for item i
  streamOpen,     \* streamOpen[i]: item i holds an open response stream
  started,        \* started[i]: how often item i was handed to a worker
  fs,             \* fs[p]: the file at path p: "absent", "pre" (there, whole, since
                  \* before this run), "partial" or "full" (written by this run)
  fs0,            \* fs as it was when the current run started
  prevOK,         \* the items the previous run reported Succeeded or Skipped
  seen,           \* seen[i]: what item i's existence check found at its path
  wr,             \* wr[i]: how far item i's write_to_disk got
  f_script,       \* a lone fetch: the server's answers, attempt by attempt
  f_res,          \* a lone fetch: its result
  w_body,         \* a lone widget lookup: the body the API answers
  w_id,           \* a lone widget lookup: the file id asked for
  w_res,          \* a lone widget lookup: its result
  f_out           \* a lone fetch: what Downloader.download makes of its result

vars == << include_forge, switch_api, manifest, run, pcMain, exited, pc, mod, reports, raised,
           metaReq, fetchReq, streamOpen, started, fs, fs0, prevOK, seen, wr,
           f_script, f_res, w_body, w_id, w_res, f_out >>

batchVars == << include_forge, switch_api, manifest, run, pcMain, exited, pc, mod, reports, raised,
                metaReq, fetchReq, streamOpen, started, fs, fs0, prevOK, seen, wr >>
fetchVars == << f_script, f_res >>
callVars == << w_body, w_id, w_res, f_out >>

\* ------------------------------------------------------------ utils.py
\* is_valid_path without the strict mode's FileExistsError
is_valid_path_lax(exists, strict, access) ==
  IF ~strict /\ ~exists THEN FALSE
  ELSE IF exists THEN access
  ELSE TRUE

\* is_valid_path(path, strict): exists = path.exists(), access = os.access(...)
is_valid_path(exists, strict, access) ==
  IF strict /\ exists THEN FALSE
  ELSE IF ~strict /\ ~exists THEN FALSE
  ELSE IF exists THEN access
  ELSE TRUE

\* What one GET meets: an HTTP status, or a transport failure (requests.get
\* raises Timeout, ConnectionError, TooManyRedirects, SSLError), written 0.
TransportFailure == 0
Answers == {TransportFailure, 200, 204, 404, 500, 503}
IsTransport(ans) == ans = TransportFailure

\* handle_get_request without the except clause for HTTPError: the error that
\* raise_for_status raises for a 4xx or 5xx status leaves the function
handle_get_request_nocatch(ans) ==
  IF IsTransport(ans) \/ ans >= 400 THEN [kind |-> "raise", status |-> 0]
  ELSE [kind |-> "response", status |-> ans]

\* handle_get_request: one GET. A transport failure is caught and printed, and
\* the return then reads the unbound local `response`: UnboundLocalError. An
\* HTTP error status is raised by raise_for_status, caught and printed, and the
\* response is returned.
handle_get_request(ans) ==
  IF IsTransport(ans) THEN [kind |-> "raise", status |-> 0]
  ELSE [kind |-> "response", status |-> ans]

\* ------------------------------------------------------------ Request
\* The transient statuses the fetcher retries.
RetryCodes == {500, 503, 504}

\* Request(url).response: GETs until an answer is not transient or the ceiling
\* is reached, sleeping between two attempts.
RECURSIVE RequestLoop(_, _, _)
RequestLoop(script, attempt, sleeps) ==
  LET r == handle_get_request(script[attempt]) IN
  IF r.kind = "raise"
    THEN [kind |-> "raise", status |-> 0, attempts |-> attempt, sleeps |-> sleeps]
  ELSE IF r.status \in RetryCodes
    THEN IF attempt >= FetchCeiling
           THEN [kind |-> "exhausted", status |-> r.status,
                 attempts |-> attempt, sleeps |-> sleeps]
           ELSE RequestLoop(script, attempt + 1, sleeps + 1)
  ELSE [kind |-> "response", status |-> r.status,
        attempts |-> attempt, sleeps |-> sleeps]

Request(script) == RequestLoop(script, 1, 0)

ScriptLen == FetchCeiling + 1
Scripts == [1..ScriptLen -> Answers]
\* every result a Request can have
RequestResults == {[kind |-> Request(s).kind, status |-> Request(s).status] : s \in Scripts}

\* ------------------------------------------------------------ Mod
\* A record of the widget API's metadata: a release of the project.
Rec(i, id) == [id |-> id, name |-> NameOfId(i, id)]

\* data_json["versions"].get(minecraft): absent, or a list of releases
VersionLists(i) ==
  {[has |-> FALSE, list |-> << >>]} \cup
  {[has |-> TRUE, list |-> l] :
     l \in {<< >>, <<Rec(i, OtherId)>>, <<Rec(i, WantedId)>>,
            <<Rec(i, OtherId), Rec(i, WantedId)>>}}

\* What the widget API's body can be: not JSON (or no response at all), the
\* "error" body of a project queued for fetch, or the project's metadata.
WidgetBodies(i) ==
  {[kind |-> "bad", download |-> Rec(i, OtherId), versions |-> [has |-> FALSE, list |-> << >>]],
   [kind |-> "error", download |-> Rec(i, OtherId), versions |-> [has |-> FALSE, list |-> << >>]]}
  \cup {[kind |-> "data", download |-> d, versions |-> v] :
          d \in {Rec(i, WantedId), Rec(i, OtherId)}, v \in VersionLists(i)}

\* the first release of the list whose id is file_id, as the for loop finds it
RECURSIVE FirstMatch(_, _, _)
FirstMatch(list, file_id, k) ==
  IF k > Len(list) THEN 0
  ELSE IF list[k].id = file_id THEN k
  ELSE FirstMatch(list, file_id, k + 1)

MediaUrl(rec) == [host |-> "media.forgecdn.net", id |-> rec.id, name |-> rec.name]

\* generate_url_via_widget_api without the scan of the per-version list: only
\* the "download" record is looked at
widget_select_primary(body, file_id) ==
  IF body.download.id = file_id
    THEN [kind |-> "url", file |-> body.download.name, url |-> MediaUrl(body.download)]
  ELSE [kind |-> "none", file |-> "none", url |-> NoUrl]

\* generate_url_via_widget_api, after the loop: lines 135-156
widget_select(body, file_id) ==
  IF body.download.id = file_id
    THEN [kind |-> "url", file |-> body.download.name, url |-> MediaUrl(body.download)]
  ELSE IF ~body.versions.has
    THEN [kind |-> "raise", file |-> "none", url |-> NoUrl]
  ELSE LET k == FirstMatch(body.versions.list, file_id, 1) IN
       IF k = 0
         THEN [kind |-> "none", file |-> "none", url |-> NoUrl]
         ELSE [kind |-> "url", file |-> body.versions.list[k].name,
               url |-> MediaUrl(body.versions.list[k])]

\* generate_url_via_widget_api, one pass of the while loop: json.loads raises on
\* a body that is not JSON, a body with an "error" key means sleep and ask
\* again, any other body leaves the loop
widget_api(body, file_id) ==
  IF body.kind = "bad" THEN [kind |-> "raise", file |-> "none", url |-> NoUrl]
  ELSE IF body.kind = "error" THEN [kind |-> "queued", file |-> "none", url |-> NoUrl]
  ELSE widget_select(body, file_id)

\* The releases a project's metadata can list, and the bodies made of them: any
\* release as the "download" record, and no list for the minecraft version or a
\* list of up to MaxList releases.
ReleaseIds == {1, 2, 3}
ReleaseName(id) == CASE id = 1 -> "a.jar" [] id = 2 -> "b.jar" [] OTHER -> "old.jar"
Release(id) == [id |-> id, name |-> ReleaseName(id)]
Releases == {Release(id) : id \in ReleaseIds}
ReleaseLists == UNION {[1..n -> Releases] : n \in 0..MaxList}
MetaBodies ==
  {[kind |-> k, download |-> Release(1), versions |-> [has |-> FALSE, list |-> << >>]] :
     k \in {"bad", "error"}}
  \cup {[kind |-> "data", download |-> d, versions |-> [has |-> FALSE, list |-> << >>]] :
          d \in Releases}
  \cup {[kind |-> "data", download |-> d, versions |-> [has |-> TRUE, list |-> l]] :
          d \in Releases, l \in ReleaseLists}

\* What the forgesvc API's body can be.
ForgesvcBodies(i) ==
  {[kind |-> "bad", fileName |-> "none", isAvailable |-> FALSE],
   [kind |-> "data", fileName |-> FileOf(i), isAvailable |-> TRUE],
   [kind |-> "data", fileName |-> FileOf(i), isAvailable |-> FALSE]}

\* generate_url_via_forgesvc_api: lines 165-175
forgesvc_select(body) ==
  IF body.kind = "bad" THEN [kind |-> "raise", file |-> "none", url |-> NoUrl]
  ELSE IF ~body.isAvailable
    THEN [kind |-> "none", file |-> body.fileName, url |-> NoUrl]
  ELSE [kind |-> "url", file |-> body.fileName,
        url |-> [host |-> "forgesvc", id |-> WantedId, name |-> body.fileName]]

\* ------------------------------------------------------------ Forge
\* Forge.__init__ and generate_url: string templating, no request
forge_url == [host |-> "files.minecraftforge.net", id |-> 0, name |-> ForgeName]

\* ------------------------------------------------------------ the pipeline
Report(i, o) == reports' = [reports EXCEPT ![i] = Append(@, o)]

\* An exception leaves item i's pipeline. In a pool worker it is stored in the
\* future that executor.map made, which nobody reads; in main() it ends the
\* process.
Raise(i) ==
  /\ raised' = [raised EXCEPT ![i] = TRUE]
  /\ pc' = [pc EXCEPT ![i] = "done"]
  /\ pcMain' = IF i = ForgeItem THEN "crashed" ELSE pcMain
  /\ exited' = IF i = ForgeItem THEN [code |-> 1, msg |-> Traceback] ELSE exited

\* after an exception-free resolution: executor_helper's `if mod.url is not None`
Resolved(i, r) ==
  \/ /\ r.kind = "raise"
     /\ Raise(i)
     /\ UNCHANGED << mod, reports >>
  \/ /\ r.kind = "none"
     /\ Report(i, "ResolutionFailed")
     /\ mod' = [mod EXCEPT ![i] = [file |-> r.file, url |-> NoUrl]]
     /\ pc' = [pc EXCEPT ![i] = "done"]
     /\ UNCHANGED << raised, pcMain, exited >>
  \/ /\ r.kind = "url"
     /\ mod' = [mod EXCEPT ![i] = [file |-> r.file, url |-> r.url]]
     /\ pc' = [pc EXCEPT ![i] = "check"]
     /\ UNCHANGED << reports, raised, pcMain, exited >>

\* generate_url_via_widget_api, one pass of its while loop and, once the body
\* holds no "error", the rest of the function
WidgetRequest(i) ==
  /\ i \in Mods /\ pc[i] = "resolve" /\ switch_api
  /\ metaReq' = [metaReq EXCEPT ![i] = TRUE]
  /\ \E r \in {widget_api(body, WantedId) : body \in WidgetBodies(i)} :
       \/ /\ r.kind = "queued"
          /\ pc' = [pc EXCEPT ![i] = "sleep"]
          /\ UNCHANGED << mod, reports, raised, pcMain, exited >>
       \/ /\ r.kind # "queued"
          /\ Resolved(i, r)
  /\ UNCHANGED << include_forge, switch_api, manifest, run, fetchReq, streamOpen, started,
                  fs, fs0, prevOK, seen, wr, fetchVars, callVars >>

\* time.sleep(2) of the while loop returns
WidgetSleep(i) ==
  /\ i \in Mods /\ pc[i] = "sleep"
  /\ pc' = [pc EXCEPT ![i] = "resolve"]
  /\ UNCHANGED << include_forge, switch_api, manifest, run, pcMain, exited, mod, reports, raised,
                  metaReq, fetchReq, streamOpen, started, fs, fs0, prevOK, seen, wr, fetchVars, callVars >>

\* generate_url_via_forgesvc_api
ForgesvcRequest(i) ==
  /\ i \in Mods /\ pc[i] = "resolve" /\ ~switch_api
  /\ metaReq' = [metaReq EXCEPT ![i] = TRUE]
  /\ \E r \in {forgesvc_select(body) : body \in ForgesvcBodies(i)} : Resolved(i, r)
  /\ UNCHANGED << include_forge, switch_api, manifest, run, fetchReq, streamOpen, started,
                  fs, fs0, prevOK, seen, wr, fetchVars, callVars >>

\* a path.exists() that finds no file
Exists_never(p) == FALSE

\* pathlib.Path.exists
Exists(p) == fs[p] # "absent"

\* Downloader.download without the existence check
download_check_noskip(i) ==
  /\ pc[i] = "check"
  /\ pc' = [pc EXCEPT ![i] = "fetch"]
  /\ UNCHANGED << include_forge, switch_api, manifest, run, pcMain, exited, mod, reports, raised, metaReq,
                  fetchReq, streamOpen, started, fs, fs0, prevOK, seen, wr, fetchVars, callVars >>

\* Downloader.download, lines 57-63: the existence check
download_check(i) ==
  /\ pc[i] = "check"
  /\ seen' = [seen EXCEPT ![i] = IF Exists(mod[i].file) THEN "present" ELSE "absent"]
  /\ IF ~is_valid_path(Exists(mod[i].file), TRUE, TRUE)
       THEN /\ Report(i, "Skipped")
            /\ pc' = [pc EXCEPT ![i] = "done"]
       ELSE /\ pc' = [pc EXCEPT ![i] = "fetch"]
            /\ UNCHANGED reports
  /\ UNCHANGED << include_forge, switch_api, manifest, run, pcMain, exited, mod, raised, metaReq,
                  fetchReq, streamOpen, started, fs, fs0, prevOK, wr, fetchVars, callVars >>

\* Downloader.download, lines 66-70: what is made of the request's result. An
\* exception of the request leaves download; a result that is no response, or
\* a response whose status is not requests.codes.ok, is a failed download;
\* the body of a response with status requests.codes.ok is written.
download_outcome(res) ==
  IF res.kind = "raise" THEN "raise"
  ELSE IF res.kind # "response" \/ res.status # StatusOk THEN "FetchFailed"
  ELSE "write"

\* Downloader.download going on to write_to_disk after a failed request
download_fetch_nostop(i) ==
  /\ pc[i] = "fetch"
  /\ fetchReq' = [fetchReq EXCEPT ![i] = TRUE]
  /\ \E res \in RequestResults :
       \/ /\ download_outcome(res) = "raise"
          /\ Raise(i)
          /\ UNCHANGED << reports, streamOpen >>
       \/ /\ download_outcome(res) = "FetchFailed"
          /\ Report(i, "FetchFailed")
          /\ pc' = [pc EXCEPT ![i] = "open"]
          /\ UNCHANGED << raised, pcMain, exited, streamOpen >>
       \/ /\ download_outcome(res) = "write"
          /\ streamOpen' = [streamOpen EXCEPT ![i] = TRUE]
          /\ pc' = [pc EXCEPT ![i] = "open"]
          /\ UNCHANGED << reports, raised, pcMain, exited >>
  /\ UNCHANGED << include_forge, switch_api, manifest, run, mod, metaReq, started,
                  fs, fs0, prevOK, seen, wr, fetchVars, callVars >>

\* Downloader.download, lines 66-70: the request and what is made of it
download_fetch(i) ==
  /\ pc[i] = "fetch"
  /\ fetchReq' = [fetchReq EXCEPT ![i] = TRUE]
  /\ \E res \in RequestResults :
       \/ /\ download_outcome(res) = "raise"
          /\ Raise(i)
          /\ UNCHANGED << reports, streamOpen >>
       \/ /\ download_outcome(res) = "FetchFailed"
          /\ Report(i, "FetchFailed")
          /\ pc' = [pc EXCEPT ![i] = "done"]
          /\ UNCHANGED << raised, pcMain, exited, streamOpen >>
       \/ /\ download_outcome(res) = "write"
          /\ streamOpen' = [streamOpen EXCEPT ![i] = TRUE]
          /\ pc' = [pc EXCEPT ![i] = "open"]
          /\ UNCHANGED << reports, raised, pcMain, exited >>
  /\ UNCHANGED << include_forge, switch_api, manifest, run, mod, metaReq, started,
                  fs, fs0, prevOK, seen, wr, fetchVars, callVars >>

\* write_to_disk, line 83: open(mode="wb") creates or truncates the file at its
\* final path, or fails
write_open(i) ==
  /\ pc[i] = "open"
  /\ \/ /\ fs' = [fs EXCEPT ![mod[i].file] = "partial"]
        /\ wr' = [wr EXCEPT ![i] = "opened"]
        /\ pc' = [pc EXCEPT ![i] = "copy"]
        /\ UNCHANGED reports
     \/ /\ Report(i, "WriteFailed")
        /\ wr' = [wr EXCEPT ![i] = "openfailed"]
        /\ pc' = [pc EXCEPT ![i] = "close"]
        /\ UNCHANGED fs
  /\ UNCHANGED << include_forge, switch_api, manifest, run, pcMain, exited, mod, raised, metaReq,
                  fetchReq, streamOpen, started, fs0, prevOK, seen, fetchVars, callVars >>

\* write_to_disk, lines 84-88: shutil.copyfileobj runs to the end, or fails
\* part-way; the except clause prints and removes nothing
write_copy(i) ==
  /\ pc[i] = "copy"
  /\ \/ /\ fs' = [fs EXCEPT ![mod[i].file] = "full"]
        /\ wr' = [wr EXCEPT ![i] = "written"]
        /\ Report(i, "Succeeded")
     \/ /\ fs' = [fs EXCEPT ![mod[i].file] = "partial"]
        /\ wr' = [wr EXCEPT ![i] = "copyfailed"]
        /\ Report(i, "WriteFailed")
  /\ pc' = [pc EXCEPT ![i] = "close"]
  /\ UNCHANGED << include_forge, switch_api, manifest, run, pcMain, exited, mod, raised, metaReq,
                  fetchReq, streamOpen, started, fs0, prevOK, seen, fetchVars, callVars >>

\* Downloader.download returning after write_to_disk without response.close()
download_close_skipped(i) ==
  /\ pc[i] = "close"
  /\ pc' = [pc EXCEPT ![i] = "done"]
  /\ UNCHANGED << include_forge, switch_api, manifest, run, pcMain, exited, mod, reports,
                  raised, metaReq, fetchReq, streamOpen, started, fs, fs0, prevOK, seen, wr,
                  fetchVars, callVars >>

\* Downloader.download, lines 72-73: response.close()
download_close(i) ==
  /\ pc[i] = "close"
  /\ streamOpen' = [streamOpen EXCEPT ![i] = FALSE]
  /\ pc' = [pc EXCEPT ![i] = "done"]
  /\ UNCHANGED << include_forge, switch_api, manifest, run, pcMain, exited, mod, reports, raised,
                  metaReq, fetchReq, started, fs, fs0, prevOK, seen, wr, fetchVars, callVars >>

\* ------------------------------------------------------------ the pool
InFlight == {i \in Mods : pc[i] \notin {"idle", "done"}}

\* a pool that starts a thread for every work item
worker_take_uncapped(i) ==
  /\ pcMain = "pool"
  /\ i \in Mods /\ pc[i] = "idle"
  /\ \A j \in Mods : j < i => pc[j] # "idle"
  /\ pc' = [pc EXCEPT ![i] = "resolve"]
  /\ started' = [started EXCEPT ![i] = @ + 1]
  /\ UNCHANGED << include_forge, switch_api, manifest, run, pcMain, exited, mod, reports, raised,
                  metaReq, fetchReq, streamOpen, fs, fs0, prevOK, seen, wr, fetchVars, callVars >>

\* A pool thread takes the next work item of the queue: with every thread
\* busy the item waits.
worker_take(i) ==
  /\ Cardinality(InFlight) < PoolSize
  /\ worker_take_uncapped(i)

\* ------------------------------------------------------------ main
\* main without the manifest's parse: whatever the file holds, main goes on
parse_manifest_nocheck ==
  /\ pcMain = "start"
  /\ pcMain' = "parsed"
  /\ UNCHANGED << include_forge, switch_api, manifest, run, exited, pc, mod, reports,
                  raised, metaReq, fetchReq, streamOpen, started, fs, fs0, prevOK, seen, wr,
                  fetchVars, callVars >>

\* main, line 307, and parse_manifest: json.loads of the manifest's text; on a
\* JSONDecodeError, sys.exit with a message (exit status 1, the message on
\* stderr)
parse_manifest ==
  /\ pcMain = "start"
  /\ IF manifest = "badjson"
       THEN /\ pcMain' = "sysexit"
            /\ exited' = [code |-> 1, msg |-> ParseDiagnostic]
       ELSE /\ pcMain' = "parsed"
            /\ UNCHANGED exited
  /\ UNCHANGED << include_forge, switch_api, manifest, run, pc, mod, reports,
                  raised, metaReq, fetchReq, streamOpen, started, fs, fs0, prevOK, seen, wr,
                  fetchVars, callVars >>

\* main, lines 315-318: the installer, downloaded by the main thread
main_start ==
  /\ pcMain = "parsed"
  /\ IF include_forge
       THEN /\ pcMain' = "forge"
            /\ mod' = [mod EXCEPT ![ForgeItem] = [file |-> ForgeName, url |-> forge_url]]
            /\ pc' = [pc EXCEPT ![ForgeItem] = "check"]
            /\ started' = [started EXCEPT ![ForgeItem] = @ + 1]
       ELSE /\ pcMain' = "pool"
            /\ UNCHANGED << mod, pc, started >>
  /\ UNCHANGED << include_forge, switch_api, manifest, run, exited, reports, raised, metaReq,
                  fetchReq, streamOpen, fs, fs0, prevOK, seen, wr, fetchVars, callVars >>

\* main, lines 320-322, and execute_threadpool's executor.map: every mod is
\* submitted to the pool
main_dispatch ==
  /\ pcMain = "forge" /\ pc[ForgeItem] = "done"
  /\ pcMain' = "pool"
  /\ UNCHANGED << include_forge, switch_api, manifest, run, exited, pc, mod, reports, raised, metaReq,
                  fetchReq, streamOpen, started, fs, fs0, prevOK, seen, wr, fetchVars, callVars >>

\* a with block that leaves without waiting for the work items
pool_exit_nowait ==
  /\ pcMain = "pool"
  /\ pcMain' = "exit"
  /\ exited' = [code |-> 0, msg |-> "none"]
  /\ UNCHANGED << include_forge, switch_api, manifest, run, pc, mod, reports, raised, metaReq,
                  fetchReq, streamOpen, started, fs, fs0, prevOK, seen, wr, fetchVars, callVars >>

\* the end of execute_threadpool's with block: shutdown(wait=True)
pool_exit ==
  /\ \A i \in Mods : pc[i] = "done"
  /\ pool_exit_nowait

\* the program is run again, on the same manifest and directory: what the
\* last run wrote in full is now a file that was there before the run
rerun ==
  /\ pcMain \in {"exit", "crashed"} /\ run < MaxRuns
  /\ run' = run + 1
  /\ pcMain' = "start"
  /\ exited' = NoExit
  /\ pc' = [i \in Items |-> "idle"]
  /\ mod' = [i \in Items |-> NoMod]
  /\ reports' = [i \in Items |-> NoReport]
  /\ raised' = [i \in Items |-> FALSE]
  /\ metaReq' = [i \in Items |-> FALSE]
  /\ fetchReq' = [i \in Items |-> FALSE]
  /\ streamOpen' = [i \in Items |-> FALSE]
  /\ started' = [i \in Items |-> 0]
  /\ wr' = [i \in Items |-> "none"]
  /\ seen' = [i \in Items |-> "unchecked"]
  /\ fs' = [p \in Paths |-> IF fs[p] = "full" THEN "pre" ELSE fs[p]]
  /\ fs0' = fs'
  /\ prevOK' = {i \in Items : reports[i] \in {<<"Succeeded">>, <<"Skipped">>}}
  /\ UNCHANGED << include_forge, switch_api, manifest, fetchVars, callVars >>

\* ------------------------------------------------------------ specifications
NoRes == [kind |-> "idle", status |-> 0, attempts |-> 0, sleeps |-> 0]
NoScript == [k \in 1..ScriptLen |-> StatusOk]
NoBody == [kind |-> "bad", download |-> Release(1), versions |-> [has |-> FALSE, list |-> << >>]]
NoResolution == [kind |-> "idle", file |-> "none", url |-> NoUrl]
\* no lone call is made
InitCalls ==
  /\ w_body = NoBody
  /\ w_id = WantedId
  /\ w_res = NoResolution
  /\ f_out = "idle"

InitBatch ==
  /\ run = 1
  /\ pcMain = "start"
  /\ exited = NoExit
  /\ pc = [i \in Items |-> "idle"]
  /\ mod = [i \in Items |-> NoMod]
  /\ reports = [i \in Items |-> NoReport]
  /\ raised = [i \in Items |-> FALSE]
  /\ metaReq = [i \in Items |-> FALSE]
  /\ fetchReq = [i \in Items |-> FALSE]
  /\ streamOpen = [i \in Items |-> FALSE]
  /\ started = [i \in Items |-> 0]
  /\ wr = [i \in Items |-> "none"]
  /\ seen = [i \in Items |-> "unchecked"]
  /\ prevOK = {}

Init ==
  /\ include_forge \in BOOLEAN
  /\ switch_api \in BOOLEAN
  /\ manifest \in {"ok", "badjson"}
  /\ fs \in [Paths -> {"absent", "pre"}]
  /\ fs[OtherName] = "absent"
  /\ fs0 = fs
  /\ InitBatch
  /\ f_script = NoScript
  /\ f_res = NoRes
  /\ InitCalls

Step(i) ==
  \/ worker_take(i)
  \/ WidgetRequest(i)
  \/ WidgetSleep(i)
  \/ ForgesvcRequest(i)
  \/ download_check(i)
  \/ download_fetch(i)
  \/ write_open(i)
  \/ write_copy(i)
  \/ download_close(i)

Next ==
  \/ parse_manifest
  \/ main_start
  \/ main_dispatch
  \/ pool_exit
  \/ rerun
  \/ \E i \in Items : Step(i)

Spec == Init /\ [][Next]_vars

\* Every thread that can take a step eventually takes one.
MainStep == parse_manifest \/ main_start \/ main_dispatch \/ pool_exit
LiveSpec ==
  /\ Init /\ [][Next]_vars
  /\ WF_vars(MainStep)
  /\ \A i \in Items : WF_vars(Step(i))

\* One run of the program, every thread that can take a step eventually
\* taking one.
NextRun ==
  \/ MainStep
  \/ \E i \in Items : Step(i)

LiveRun ==
  /\ Init /\ [][NextRun]_vars
  /\ WF_vars(MainStep)
  /\ \A i \in Items : WF_vars(Step(i))

\* A lone Request: the server's answers are drawn, the request is made.
InitFetch ==
  /\ include_forge = FALSE
  /\ switch_api = TRUE
  /\ manifest = "ok"
  /\ fs = [p \in Paths |-> "absent"]
  /\ fs0 = fs
  /\ InitBatch
  /\ f_script \in Scripts
  /\ f_res = NoRes
  /\ InitCalls

request_call ==
  /\ f_res = NoRes
  /\ f_res' = Request(f_script)
  /\ UNCHANGED << batchVars, f_script, callVars >>

\* Downloader.download, lines 66-70, on the result of the lone Request
download_call ==
  /\ f_res # NoRes /\ f_out = "idle"
  /\ f_out' = download_outcome(f_res)
  /\ UNCHANGED << batchVars, fetchVars, w_body, w_id, w_res >>

SpecFetch == InitFetch /\ [][request_call \/ download_call]_vars

\* A lone widget lookup: the body and the file id are drawn, one pass of
\* generate_url_via_widget_api is made.
InitResolve ==
  /\ include_forge = FALSE
  /\ switch_api = TRUE
  /\ manifest = "ok"
  /\ fs = [p \in Paths |-> "absent"]
  /\ fs0 = fs
  /\ InitBatch
  /\ f_script = NoScript
  /\ f_res = NoRes
  /\ w_body \in MetaBodies
  /\ w_id \in ReleaseIds
  /\ w_res = NoResolution
  /\ f_out = "idle"

widget_call ==
  /\ w_res = NoResolution
  /\ w_res' = widget_api(w_body, w_id)
  /\ UNCHANGED << batchVars, fetchVars, w_body, w_id, f_out >>

SpecResolve == InitResolve /\ [][widget_call]_vars

\* ------------------------------------------------------------ properties
Dispatched == {i \in Items : started[i] > 0}
ExistedBefore(i) == fs0[FileOf(i)] # "absent"
Ended(i) == pc[i] = "done"

\* C1 (as stated): an item whose destination file exists before the run is
\* Skipped, and neither a metadata request nor a download request is issued
\* for it.
C1_SkippedWithoutAnyRequest ==
  \A i \in Dispatched : ExistedBefore(i) =>
    /\ ~metaReq[i] /\ ~fetchReq[i]
    /\ Ended(i) => reports[i] = <<"Skipped">>

\* C1 (amended): for an item whose destination file exists before the run no
\* download request is issued and nothing is written; the installer issues no
\* request at all and is Skipped; a mod, whose file name is known only from
\* its metadata request, is Skipped once its resolution returned a URL, and
\* otherwise reports ResolutionFailed or nothing.
C1_NoDownloadWhenPresent ==
  \A i \in Dispatched : ExistedBefore(i) =>
    /\ ~fetchReq[i] /\ wr[i] = "none"
    /\ reports[i] \in {NoReport, <<"Skipped">>, <<"ResolutionFailed">>}
    /\ i = ForgeItem => ~metaReq[i] /\ (Ended(i) => reports[i] = <<"Skipped">>)
    /\ (Ended(i) /\ mod[i].url # NoUrl) => reports[i] = <<"Skipped">>

C1_Witness ==
  \E i \in Mods : /\ run = 1 /\ ExistedBefore(i) /\ metaReq[i]
                  /\ Ended(i) /\ reports[i] = <<"Skipped">>

\* C2: a file is visible at a final path only when it is fully written: no
\* partially written file is ever at a final path.
C2_NoPartialFileVisible ==
  \A p \in Paths : fs[p] # "partial"

\* C3: after a write that failed part-way through the copy, no file is at the
\* item's destination path and the outcome is WriteFailed.
C3_FailedCopyLeavesNoFile ==
  \A i \in Items : wr[i] = "copyfailed" =>
    /\ fs[mod[i].file] = "absent"
    /\ reports[i] = <<"WriteFailed">>

\* C4 (as stated): on the second run the outcome of every item is Skipped.
C4_SecondRunAllSkipped ==
  run > 1 =>
    \A i \in Dispatched : reports[i] # NoReport => reports[i] = <<"Skipped">>

\* C4 (amended): on a second run, an item the first run reported Succeeded or
\* Skipped is not downloaded again: no download request is issued and nothing
\* is written for it, the installer is Skipped, and a mod is Skipped once its
\* resolution returned a URL.
C4_SecondRunSkipsKept ==
  run > 1 =>
    \A i \in prevOK \cap Dispatched :
      /\ ~fetchReq[i] /\ wr[i] = "none"
      /\ reports[i] \in {NoReport, <<"Skipped">>, <<"ResolutionFailed">>}
      /\ i = ForgeItem => (Ended(i) => reports[i] = <<"Skipped">>)
      /\ (Ended(i) /\ mod[i].url # NoUrl) => reports[i] = <<"Skipped">>

C4_Witness ==
  /\ run = 2 /\ pcMain = "exit"
  /\ \E i \in Mods \cap prevOK : reports[i] = <<"Skipped">>
  /\ \E j \in Mods : j \notin prevOK /\ reports[j] = <<"Succeeded">>

\* C5: an item whose pipeline has ended has exactly one reported outcome.
C5_ExactlyOneOutcome ==
  \A i \in Items : Ended(i) => Len(reports[i]) = 1

\* C6: no item's failure ends the process by an exception.
C6_FailureNeverAborts ==
  pcMain # "crashed"

\* C7: no item is handed to a worker twice, and when the batch call returns
\* every one of the N mods was handed to a worker once and its pipeline has
\* ended.
C7_AllProcessedOnce ==
  /\ \A i \in Items : started[i] <= 1
  /\ pcMain = "exit" => \A i \in Mods : started[i] = 1 /\ Ended(i)

C7_Witness ==
  /\ PoolSize < NMods
  /\ pcMain = "exit" /\ run = 1
  /\ \A i \in Mods : started[i] = 1 /\ Ended(i)

\* C8: at most PoolSize pipelines are in flight at any moment.
C8_InFlightAtMostPoolSize ==
  Cardinality({i \in Items : pc[i] \notin {"idle", "done"}}) <= PoolSize

C8_Witness ==
  /\ Cardinality(InFlight) = PoolSize
  /\ \E i \in Mods : pc[i] = "idle"

\* C9: a fetch answered 503, 503, 200 succeeds on its third attempt after two
\* sleeps; a fetch answered 503 on every attempt ends at the ceiling with
\* RetriesExhausted after ceiling - 1 sleeps.
C9_FetchRetry ==
  f_res # NoRes =>
    /\ (f_script[1] = 503 /\ f_script[2] = 503 /\ f_script[3] = 200) =>
         /\ f_res.kind = "response" /\ f_res.status = StatusOk
         /\ f_res.attempts = 3 /\ f_res.sleeps = 2
    /\ (\A k \in 1..ScriptLen : f_script[k] = 503) =>
         /\ f_res.kind = "exhausted" /\ f_res.status = 503
         /\ f_res.attempts = FetchCeiling /\ f_res.sleeps = FetchCeiling - 1

C9_Witness ==
  /\ f_script[1] = 503 /\ f_script[2] = 503 /\ f_script[3] = 200
  /\ f_res.kind = "response" /\ f_res.attempts = 3

\* C10: every mod's resolution step eventually ends.
C10_ResolutionEnds ==
  \A i \in Mods : (pc[i] = "resolve") ~> (pc[i] \notin {"resolve", "sleep"})

C12_NoMatchReported ==
  (/\ w_res # NoResolution /\ w_body.kind = "data"
   /\ w_body.download.id # w_id
   /\ \A k \in 1..Len(w_body.versions.list) : w_body.versions.list[k].id # w_id)
  => w_res.kind = "none" /\ w_res.url = NoUrl

Reported(i, o) == \E k \in 1..Len(reports[i]) : reports[i][k] = o

\* C13: the pipeline of an item stops at its first failed step: after a
\* resolution that failed (reported, or ended without a URL) no download
\* request is issued for the item, and after a fetch that failed (reported, or
\* ended by an exception) the item opens and writes no file.
C13_StopsAtFirstFailure ==
  \A i \in Items :
    /\ (Reported(i, "ResolutionFailed") \/ (Ended(i) /\ mod[i].url = NoUrl))
         => ~fetchReq[i] /\ wr[i] = "none"
    /\ (Reported(i, "FetchFailed") \/ (fetchReq[i] /\ raised[i]))
         => wr[i] = "none" /\ ~streamOpen[i] /\ Ended(i)

C13_Witness ==
  \E i, j \in Mods :
    /\ reports[i] = <<"ResolutionFailed">> /\ Ended(i) /\ metaReq[i]
    /\ reports[j] = <<"FetchFailed">> /\ Ended(j) /\ fetchReq[j]
    /\ fs[FileOf(j)] = "absent"

\* C14: a fetch whose response has any status of 200..299 is a success: its
\* body is handed to the file writer.
C14_Every2xxIsWritten ==
  (/\ f_out # "idle"
   /\ f_res.kind = "response" /\ f_res.status \in 200..299)
  => f_out = "write"

\* C15: a transport failure of the GET is not retried and comes back to the
\* caller as a fetch failure that carries the failure's kind; no other error
\* leaves the fetcher, and the download is then reported failed.
C15_TransportFailureReturned ==
  (f_res # NoRes /\ IsTransport(f_script[1])) =>
    /\ f_res.attempts = 1 /\ f_res.sleeps = 0
    /\ f_res.kind = "transport"
    /\ f_out # "idle" => f_out = "FetchFailed"

\* C16: with a manifest that is not valid JSON the process exits with a
\* non-zero status and the diagnostic of the parse error, before any item is
\* resolved, fetched or written.
C16_BadManifestExitsPreflight ==
  manifest = "badjson" =>
    /\ pcMain \in {"start", "sysexit"}
    /\ exited.code # 0
    /\ pcMain = "sysexit" => exited.code > 0 /\ exited.msg = ParseDiagnostic
    /\ \A i \in Items :
         /\ started[i] = 0 /\ pc[i] = "idle" /\ reports[i] = NoReport
         /\ ~metaReq[i] /\ ~fetchReq[i] /\ wr[i] = "none"
    /\ fs = fs0

C16_Witness ==
  /\ manifest = "badjson" /\ pcMain = "sysexit"
  /\ exited = [code |-> 1, msg |-> ParseDiagnostic]
  /\ \E p \in ModNames : fs[p] = "absent"

\* item i's write_to_disk opened the item's destination path for writing
Opened(i) == wr[i] \in {"opened", "written", "copyfailed"}

\* C17: in one run no two workers open the same destination path for writing,
\* also when two items resolve to the same file name.
C17_NoTwoWritersOnePath ==
  \A i, j \in Items :
    (i # j /\ mod[i].file = mod[j].file) => ~(Opened(i) /\ Opened(j))

\* C18: no item waits for another: a mod that does not stay for ever in its
\* own lookup loop has its pipeline ended some time after the pool started,
\* also when other mods of the batch never end.
C18_NoItemWaitsForAnother ==
  \A i \in Mods :
    ([]<>(pc[i] \notin {"resolve", "sleep"})) => ((pcMain = "pool") ~> Ended(i))

\* C19: every response stream a successful fetch obtained is eventually
\* closed by the item's pipeline, after a write that succeeded and after a
\* write that failed.
C19_StreamEventuallyClosed ==
  \A i \in Items :
    streamOpen[i] ~> (~streamOpen[i] /\ Ended(i) /\ wr[i] # "none")

C19_Witness ==
  \E i, j \in Items :
    /\ fetchReq[i] /\ wr[i] = "written" /\ ~streamOpen[i] /\ Ended(i)
    /\ fetchReq[j] /\ wr[j] \in {"openfailed", "copyfailed"} /\ ~streamOpen[j] /\ Ended(j)

\* C20: a file that is at a path when the run starts is there, unchanged,
\* throughout and after the run, in every interleaving; the run changes a path
\* only by an item opening it, and an item only opens a path that was absent
\* when the item's existence check was made.
C20_ExistingFilesUntouched ==
  /\ \A p \in Paths : fs0[p] # "absent" => fs[p] = fs0[p]
  /\ \A p \in Paths : fs[p] # fs0[p] => \E i \in Items : Opened(i) /\ mod[i].file = p
  /\ \A i \in Items : Opened(i) => seen[i] = "absent" /\ fs0[mod[i].file] = "absent"

C20_Witness ==
  /\ pcMain = "exit"
  /\ \E p \in ModNames : fs0[p] = "pre" /\ fs[p] = "pre"
  /\ \E i \in Mods : seen[i] = "present" /\ reports[i] = <<"Skipped">>
  /\ \E j \in Mods : seen[j] = "absent" /\ wr[j] = "written" /\ fs[mod[j].file] = "full"

====
